---------------------------- MODULE Spec2Model ----------------------------
(***************************************************************************)
(* Model of the secrets-vault engine: the cipher module                    *)
(* (src/src/utils/crypto.js) and the vault engine                          *)
(* (src/src/storage/vault.js).                                             *)
(*                                                                         *)
(* Conventions.                                                            *)
(*  - A JavaScript string is a sequence of character codes; a Buffer is a  *)
(*    sequence of bytes (0..255).                                          *)
(*  - A JavaScript object is a function whose DOMAIN is the set of its     *)
(*    own, defined properties: an absent (undefined) property is absent    *)
(*    from the DOMAIN.                                                     *)
(*  - null is the empty sequence (the nullable strings and the nullable    *)
(*    key); the backing file is <<>> when absent and <<text>> when present.*)
(*  - crypto.randomBytes is modelled by a counter (rng): every draw gives  *)
(*    bytes no earlier draw gave.                                          *)
(*  - PBKDF2, SHA-256 and the AES block function are stand-ins with the    *)
(*    same shape (deterministic, keyed where the original is keyed); the   *)
(*    code around them (counter mode, XOR, IV prefix, base64, hex, UTF-8)  *)
(*    is modelled as written.                                              *)
(***************************************************************************)
EXTENDS Integers, Sequences, FiniteSets, TLC

(***************************************************************************)
(* Bounds of the model.                                                    *)
(***************************************************************************)
\* the wall clock runs from 0 to MaxNow: the number of calls that stamp the time
\* (each draws random bytes at most twice, which bounds rng)
MaxNow == 3

(***************************************************************************)
(* Cipher module: fixed parameters (crypto.js, constructor).               *)
(***************************************************************************)
keyLength == 32
ivLength == 16
pbkdf2Iterations == 100000

(***************************************************************************)
(* Bytes, sequences.                                                       *)
(***************************************************************************)
RECURSIVE SumTo(_, _)
SumTo(s, n) == IF n = 0 THEN 0 ELSE s[n] + SumTo(s, n - 1)

SumSeq(s) == SumTo(s, Len(s))

RECURSIVE BitXor(_, _, _)
BitXor(a, b, n) ==
    IF n = 0 THEN 0
    ELSE (((a % 2) + (b % 2)) % 2) + 2 * BitXor(a \div 2, b \div 2, n - 1)

Xor8(a, b) == BitXor(a, b, 8)

RECURSIVE Flatten(_)
Flatten(ss) == IF ss = <<>> THEN <<>> ELSE Head(ss) \o Flatten(Tail(ss))

\* Buffer.slice(from) / Buffer.slice(0, to), String.substring(0, n): clamped
SliceFrom(s, from) == IF from >= Len(s) THEN <<>> ELSE SubSeq(s, from + 1, Len(s))
SliceTo(s, to) == IF to >= Len(s) THEN s ELSE SubSeq(s, 1, to)

(***************************************************************************)
(* Buffer.toString('hex') and Buffer.from(text, 'hex').                    *)
(***************************************************************************)
HexChar(n) == IF n < 10 THEN 48 + n ELSE 87 + n
HexVal(c) == IF c >= 97 THEN c - 87 ELSE c - 48

ToHex(bytes) ==
    Flatten([i \in 1..Len(bytes) |->
                <<HexChar(bytes[i] \div 16), HexChar(bytes[i] % 16)>>])

FromHex(text) ==
    [i \in 1..(Len(text) \div 2) |->
        16 * HexVal(text[2 * i - 1]) + HexVal(text[2 * i])]

(***************************************************************************)
(* Buffer.toString('base64') and Buffer.from(text, 'base64').              *)
(***************************************************************************)
B64Char(v) ==
    IF v < 26 THEN 65 + v
    ELSE IF v < 52 THEN 97 + (v - 26)
    ELSE IF v < 62 THEN 48 + (v - 52)
    ELSE IF v = 62 THEN 43
    ELSE 47

B64Val(c) ==
    IF c >= 97 THEN c - 97 + 26
    ELSE IF c >= 65 THEN c - 65
    ELSE IF c >= 48 THEN c - 48 + 52
    ELSE IF c = 43 THEN 62
    ELSE 63

B64Pad == 61

\* the four characters of the group of (up to three) bytes that starts at i
B64Group(bytes, i) ==
    LET n  == Len(bytes)
        b0 == bytes[i]
        b1 == IF i + 1 <= n THEN bytes[i + 1] ELSE 0
        b2 == IF i + 2 <= n THEN bytes[i + 2] ELSE 0
    IN  << B64Char(b0 \div 4),
           B64Char(((b0 % 4) * 16) + (b1 \div 16)),
           IF i + 1 <= n THEN B64Char(((b1 % 16) * 4) + (b2 \div 64)) ELSE B64Pad,
           IF i + 2 <= n THEN B64Char(b2 % 64) ELSE B64Pad >>

ToBase64(bytes) ==
    Flatten([g \in 1..((Len(bytes) + 2) \div 3) |-> B64Group(bytes, 3 * g - 2)])

\* the (up to three) bytes of the group of sextets that starts at i
B64Bytes(v, i) ==
    LET n  == Len(v)
        s0 == v[i]
        s1 == IF i + 1 <= n THEN v[i + 1] ELSE 0
        s2 == IF i + 2 <= n THEN v[i + 2] ELSE 0
        s3 == IF i + 3 <= n THEN v[i + 3] ELSE 0
    IN  (IF i + 1 <= n THEN << (s0 * 4) + (s1 \div 16) >> ELSE <<>>)
        \o (IF i + 2 <= n THEN << ((s1 % 16) * 16) + (s2 \div 4) >> ELSE <<>>)
        \o (IF i + 3 <= n THEN << ((s2 % 4) * 64) + s3 >> ELSE <<>>)

FromBase64(text) ==
    LET NotPad(c) == c # B64Pad
        chars == SelectSeq(text, NotPad)
        v == [i \in 1..Len(chars) |-> B64Val(chars[i])]
    IN  Flatten([g \in 1..((Len(v) + 3) \div 4) |-> B64Bytes(v, 4 * g - 3)])

(***************************************************************************)
(* aesjs.utils.utf8.toBytes / fromBytes (used by encrypt and decrypt) for  *)
(* the characters of the Basic Multilingual Plane: one, two or three       *)
(* bytes a character.  fromBytes does not validate: a missing continuation *)
(* byte reads as undefined, and (undefined & 0x3f) is 0.                   *)
(***************************************************************************)
Utf8Char(c) ==
    IF c < 128 THEN << c >>
    ELSE IF c < 2048 THEN << 192 + (c \div 64), 128 + (c % 64) >>
    ELSE << 224 + (c \div 4096), 128 + ((c \div 64) % 64), 128 + (c % 64) >>

Utf8ToBytes(text) == Flatten([i \in 1..Len(text) |-> Utf8Char(text[i])])

RECURSIVE Utf8FromBytes(_)
Utf8FromBytes(bytes) ==
    IF bytes = <<>> THEN <<>>
    ELSE LET c  == bytes[1]
             c1 == IF Len(bytes) >= 2 THEN (bytes[2] % 64) ELSE 0
             c2 == IF Len(bytes) >= 3 THEN (bytes[3] % 64) ELSE 0
         IN  IF c < 128
             THEN << c >> \o Utf8FromBytes(SliceFrom(bytes, 1))
             ELSE IF c > 191 /\ c < 224
             THEN << ((c % 32) * 64) + c1 >> \o Utf8FromBytes(SliceFrom(bytes, 2))
             ELSE << ((c % 16) * 4096) + (c1 * 64) + c2 >>
                  \o Utf8FromBytes(SliceFrom(bytes, 3))

(***************************************************************************)
(* crypto.randomBytes(n): the n bytes of draw number r.                    *)
(***************************************************************************)
RandomBytes(n, r) == [i \in 1..n |-> (37 * r + 11 * i) % 256]

(***************************************************************************)
(* Stand-ins for the primitives of the platform.                           *)
(***************************************************************************)
\* crypto.pbkdf2Sync(passphrase, salt, iterations, keylen, 'sha256')
\* seeded fault: the key is derived from the salt alone
Pbkdf2_NoPass(passphrase, saltBuffer, iterations, keylen) ==
    LET mix == 17 * SumSeq(saltBuffer) + iterations
    IN  [i \in 1..keylen |-> (mix + i) % 256]

Pbkdf2(passphrase, saltBuffer, iterations, keylen) ==
    LET mix == 31 * SumSeq(passphrase) + 17 * SumSeq(saltBuffer) + iterations
    IN  [i \in 1..keylen |-> (mix + i) % 256]

\* the AES block function: the 16 bytes of E_key(counter block)
AesBlock(key, block) ==
    LET sum == SumSeq(block)
    IN  [j \in 1..16 |->
            (key[j] + 2 * key[j + 16] + 5 * block[j] + 7 * sum + j) % 256]

\* aesjs.Counter(iv) after n increments (big-endian, wrapping)
RECURSIVE CounterAdd(_, _)
CounterAdd(block, n) ==
    IF n = 0 \/ block = <<>> THEN block
    ELSE LET last == block[Len(block)] + n
         IN  CounterAdd(SubSeq(block, 1, Len(block) - 1), last \div 256)
             \o << last % 256 >>

\* aesjs.ModeOfOperation.ctr: encrypt and decrypt are the same XOR with the
\* key stream E_key(iv), E_key(iv + 1), ...
AesCtr(key, iv, bytes) ==
    LET stream == [b \in 0..((Len(bytes) + 15) \div 16) |->
                      AesBlock(key, CounterAdd(iv, b))]
    IN  [p \in 1..Len(bytes) |->
            Xor8(bytes[p], stream[(p - 1) \div 16][((p - 1) % 16) + 1])]

\* crypto.createHash('sha256').update(value).digest(): one byte a byte of the
\* message, so that different messages have different digests
Sha256(bytes) == << Len(bytes) >> \o [i \in 1..Len(bytes) |-> Xor8(bytes[i], 92)]

(***************************************************************************)
(* Cipher module (crypto.js).  The parameter r of an operation that calls  *)
(* crypto.randomBytes is the number of its draw.                           *)
(***************************************************************************)
Null == <<>>

deriveKey(passphrase, salt, r) ==
    LET s == IF salt = Null THEN ToHex(RandomBytes(16, r)) ELSE salt
        saltBuffer == FromHex(s)
    IN  [key  |-> Pbkdf2(passphrase, saltBuffer, pbkdf2Iterations, keyLength),
         salt |-> s]

encrypt(plaintext, key, r) ==
    LET iv == RandomBytes(ivLength, r)
        encryptedBytes == AesCtr(key, iv, Utf8ToBytes(plaintext))
        combined == iv \o encryptedBytes
    IN  ToBase64(combined)

\* seeded fault: decrypt does not cut the IV off the ciphertext
decrypt_KeepIv(ciphertext, key) ==
    LET combined == FromBase64(ciphertext)
        iv == SliceTo(combined, ivLength)
        decryptedBytes == AesCtr(key, iv, combined)
    IN  Utf8FromBytes(decryptedBytes)

decrypt(ciphertext, key) ==
    LET combined == FromBase64(ciphertext)
        iv == SliceTo(combined, ivLength)
        encryptedBytes == SliceFrom(combined, ivLength)
        decryptedBytes == AesCtr(key, iv, encryptedBytes)
    IN  Utf8FromBytes(decryptedBytes)

hash(value) == ToHex(Sha256(Utf8ToBytes(value)))

generateSecret(length, r) ==
    LET bytes == RandomBytes(length, r)
        Plus(c) == IF c = 43 THEN 45 ELSE c
        Slash(c) == IF c = 47 THEN 95 ELSE c
        NotPad(c) == c # B64Pad
        b64 == ToBase64(bytes)
    IN  SelectSeq([i \in 1..Len(b64) |-> Slash(Plus(b64[i]))], NotPad)

(***************************************************************************)
(* Strings used as inputs.                                                 *)
(***************************************************************************)
Str_db       == <<100, 98>>                                \* "db"
Str_DB       == <<68, 66>>                                 \* "DB"
Str_old      == <<111, 108, 100>>                          \* "old"
Str_s        == <<115>>                                    \* "s"
Str_n        == <<110>>                                    \* "n"
Str_eacute   == <<233>>                                    \* "é"
Str_pw1      == <<112, 119, 49>>                           \* "pw1"
Str_pw2      == <<112, 119, 50>>                           \* "pw2"
Str_generic  == <<103, 101, 110, 101, 114, 105, 99>>       \* "generic"
Str_password == <<112, 97, 115, 115, 119, 111, 114, 100>>  \* "password"
Str_token    == <<116, 111, 107, 101, 110>>                \* "token"
Str_prod     == <<112, 114, 111, 100>>                     \* "prod"
Str_me       == <<109, 101>>                               \* "me"
Str_none     == <<110, 111, 110, 101>>                     \* "none": no record's id

\* the messages of the errors the engine throws
ErrLocked   == "Vault is locked. Run \"secrets unlock\" first."
ErrNotFound == "Secret not found"
ErrNoVault  == "Vault does not exist. Run \"secrets init\" first."

\* the error fs.writeFileSync throws when the file cannot be written
ErrWrite    == "EACCES: permission denied"

\* the object {}
EmptyObject == [k \in {} |-> Null]

(***************************************************************************)
(* Date: new Date().toISOString() and new Date(text).  An instant t of the *)
(* clock is written as the four digits of the year 2000 + t and "Z"; a     *)
(* text that is not of this form is an invalid date (NaN).                 *)
(***************************************************************************)
NaN == -1

toISOString(t) ==
    LET y == 2000 + t
    IN  << 48 + (y \div 1000), 48 + ((y \div 100) % 10),
           48 + ((y \div 10) % 10), 48 + (y % 10), 90 >>

DateParse(text) ==
    IF /\ Len(text) = 5
       /\ text[5] = 90
       /\ \A i \in 1..4 : text[i] >= 48 /\ text[i] <= 57
    THEN (1000 * (text[1] - 48)) + (100 * (text[2] - 48))
         + (10 * (text[3] - 48)) + (text[4] - 48) - 2000
    ELSE NaN

(***************************************************************************)
(* JSON.stringify / JSON.parse of the vault document.                      *)
(***************************************************************************)
JsonStringify(d) == [json |-> d]
JsonParse(text) == text.json

(***************************************************************************)
(* The engine (vault.js): one SecretsVault object and its backing file.    *)
(***************************************************************************)
VARIABLES
    data,           \* this.data: the in-memory vault
    encryptionKey,  \* this.encryptionKey: Null or the derived key
    isUnlocked,     \* this.isUnlocked
    file,           \* the file at this.vaultPath: <<>> or <<text>>
    now,            \* the wall clock
    rng,            \* the number of crypto.randomBytes draws made
    encLog,         \* history: for every ciphertext held, its plaintext and key
    initPass,       \* history: the passphrase of the last init(), or Null
    other,          \* a second engine object on the same file, and its last call
    result          \* the last call: its name, arguments and outcome

vars == << data, encryptionKey, isUnlocked, file, now, rng, encLog, initPass, other, result >>

\* constructor(): the vault of a fresh engine object
EmptyVault ==
    [version  |-> 1,
     secrets  |-> <<>>,
     metadata |-> [createdAt |-> Null, updatedAt |-> Null, salt |-> Null]]

\* the outcome of a call: status is "ok" or the message of the error thrown
Outcome(op, status) ==
    [op |-> op, status |-> status, id |-> Null, pass |-> Null, value |-> Null,
     input |-> EmptyObject, recs |-> <<>>, text |-> <<>>]

\* seeded fault: the record is returned whole, the ciphertext included
Meta_Whole(secret) == secret

\* { value, ...meta } = secret: the record without its value
Meta(secret) == [f \in (DOMAIN secret) \ {"value"} |-> secret[f]]

\* seeded fault: an id that no record has addresses the last record, as
\* an index of -1 does in splice and at
FindIndex_Last(secrets, id) ==
    IF \E i \in 1..Len(secrets) : secrets[i].id = id
    THEN CHOOSE i \in 1..Len(secrets) :
            /\ secrets[i].id = id
            /\ \A j \in 1..(i - 1) : secrets[j].id # id
    ELSE Len(secrets)

\* Array.prototype.findIndex(s => s.id === id): 0 stands for -1
FindIndex(secrets, id) ==
    IF \E i \in 1..Len(secrets) : secrets[i].id = id
    THEN CHOOSE i \in 1..Len(secrets) :
            /\ secrets[i].id = id
            /\ \A j \in 1..(i - 1) : secrets[j].id # id
    ELSE 0

\* seeded fault: splice(index) without the count, which removes the record
\* and every record after it
Splice_Tail(secrets, index) == SubSeq(secrets, 1, index - 1)

\* Array.prototype.splice(index, 1)
Splice(secrets, index) ==
    [i \in 1..(Len(secrets) - 1) |->
        IF i < index THEN secrets[i] ELSE secrets[i + 1]]

\* the file after a write of the whole document
Saved(d) == << JsonStringify(d) >>

\* seeded fault: save() writes the vault as it was before the call changed it
Save_Stale(d, written) == IF written THEN Saved(data) ELSE file

\* seeded fault: save() keeps the records of the file that the vault written
\* does not hold
Save_Merge(d, written) ==
    LET held == { d.secrets[i].id : i \in 1..Len(d.secrets) }
        Kept(secret) == secret.id \notin held
        onDisk == IF file = <<>> THEN <<>> ELSE JsonParse(file[1]).secrets
    IN  IF written
        THEN Saved([d EXCEPT !.secrets = SelectSeq(onDisk, Kept) \o d.secrets])
        ELSE file

\* save(): the document is written to the file, or fs.writeFileSync throws
\* and the file is as it was
Save(d, written) == IF written THEN Saved(d) ELSE file

\* the status of a call that ends with save()
SaveStatus(written) == IF written THEN "ok" ELSE ErrWrite

\* _ensureUnlocked()
Locked == ~isUnlocked

\* the ciphertexts of a vault document, and of the document in a file
Ciphertexts(d) == { d.secrets[i].value : i \in 1..Len(d.secrets) }
FileCiphertexts(f) == IF f = <<>> THEN {} ELSE Ciphertexts(JsonParse(f[1]))

\* the history kept: the entries of the ciphertexts still in memory (of either
\* engine object) or on disk
LiveLog(log, d, f) ==
    { e \in log : e.ct \in Ciphertexts(d) \cup FileCiphertexts(f)
                               \cup Ciphertexts(other.data) }

Init ==
    /\ data = EmptyVault
    /\ encryptionKey = Null
    /\ isUnlocked = FALSE
    /\ file = <<>>
    /\ now = 0
    /\ rng = 0
    /\ encLog = {}
    /\ initPass = Null
    /\ other = [data |-> EmptyVault, encryptionKey |-> Null, isUnlocked |-> FALSE,
                result |-> Outcome("constructor", "ok")]
    /\ result = Outcome("constructor", "ok")

\* new SecretsVault(): a fresh engine object on the same path
Construct ==
    /\ data' = EmptyVault
    /\ encryptionKey' = Null
    /\ isUnlocked' = FALSE
    /\ result' = Outcome("constructor", "ok")
    /\ encLog' = LiveLog(encLog, EmptyVault, file)
    /\ UNCHANGED << file, now, rng, initPass, other >>

\* new Date(): a call that stamps the time reads the instant now, and the
\* clock has moved on when the next call reads it
ClockRead ==
    /\ now < MaxNow
    /\ now' = now + 1

\* a call that throws before it changes anything: the caller sees the error
Throws(outcome) ==
    /\ result' = outcome
    /\ UNCHANGED << data, encryptionKey, isUnlocked, file, now, rng, encLog, initPass, other >>

\* a call that returns without changing anything
Returns(outcome) ==
    /\ result' = outcome
    /\ UNCHANGED << data, encryptionKey, isUnlocked, file, now, rng, encLog, initPass, other >>

\* written: whether the write of save() succeeds
init(passphrase, written) ==
    /\ ClockRead
    /\ LET derived == deriveKey(passphrase, Null, rng + 1)
           d == [data EXCEPT !.metadata =
                    [createdAt |-> toISOString(now),
                     updatedAt |-> toISOString(now),
                     salt      |-> derived.salt]]
       IN  /\ encryptionKey' = derived.key
           /\ data' = d
           /\ file' = Save(d, written)
           /\ isUnlocked' = IF written THEN TRUE ELSE isUnlocked
    /\ rng' = rng + 1
    /\ result' = [Outcome("init", SaveStatus(written)) EXCEPT !.pass = passphrase]
    /\ encLog' = LiveLog(encLog, data', file')
    /\ initPass' = IF written THEN passphrase ELSE initPass
    /\ UNCHANGED other

\* seeded fault: unlock derives the key without the stored salt
unlock_FreshSalt(passphrase) ==
    IF file = <<>>
    THEN Throws(Outcome("unlock", ErrNoVault))
    ELSE LET loaded == JsonParse(file[1])
             derived == deriveKey(passphrase, Null, rng + 1)
         IN  /\ data' = loaded
             /\ encryptionKey' = derived.key
             /\ isUnlocked' = TRUE
             /\ rng' = rng + 1
             /\ result' = [Outcome("unlock", "ok") EXCEPT !.pass = passphrase]
             /\ encLog' = LiveLog(encLog, loaded, file)
             /\ UNCHANGED << file, now, initPass, other >>

unlock(passphrase) ==
    IF file = <<>>
    THEN Throws(Outcome("unlock", ErrNoVault))
    ELSE LET loaded == JsonParse(file[1])
             fresh == loaded.metadata.salt = Null
             derived == deriveKey(passphrase, loaded.metadata.salt, rng + 1)
         IN  /\ data' = loaded
             /\ encryptionKey' = derived.key
             /\ isUnlocked' = TRUE
             /\ rng' = IF fresh THEN rng + 1 ELSE rng
             /\ result' = [Outcome("unlock", "ok") EXCEPT !.pass = passphrase]
             /\ encLog' = LiveLog(encLog, loaded, file)
             /\ UNCHANGED << file, now, initPass, other >>

\* seeded fault: lock clears the flag and keeps the key
lock_KeepKey ==
    /\ isUnlocked' = FALSE
    /\ result' = Outcome("lock", "ok")
    /\ UNCHANGED << data, encryptionKey, file, now, rng, encLog, initPass, other >>

lock ==
    /\ encryptionKey' = Null
    /\ isUnlocked' = FALSE
    /\ result' = Outcome("lock", "ok")
    /\ UNCHANGED << data, file, now, rng, encLog, initPass, other >>

\* secretData.f || dflt, for a string, an array or an object f
OrDefault(obj, f, dflt) ==
    IF f \in DOMAIN obj /\ obj[f] # Null THEN obj[f] ELSE dflt

addSecret(secretData, written) ==
    IF Locked
    THEN Throws(Outcome("addSecret", ErrLocked))
    ELSE /\ ClockRead
         /\ LET NotDash(c) == c # 45 /\ c # 95
                secret ==
                    [id        |-> SliceTo(SelectSeq(generateSecret(16, rng + 1), NotDash), 16),
                     name      |-> secretData.name,
                     type      |-> OrDefault(secretData, "type", Str_generic),
                     value     |-> encrypt(secretData.value, encryptionKey, rng + 2),
                     valueHash |-> hash(secretData.value),
                     createdAt |-> toISOString(now),
                     updatedAt |-> toISOString(now),
                     expiresAt |-> OrDefault(secretData, "expiresAt", Null),
                     metadata  |-> IF "metadata" \in DOMAIN secretData
                                   THEN secretData.metadata ELSE EmptyObject,
                     tags      |-> IF "tags" \in DOMAIN secretData
                                   THEN secretData.tags ELSE <<>>,
                     notes     |-> OrDefault(secretData, "notes", Null)]
                d == [data EXCEPT !.secrets = Append(@, secret),
                                  !.metadata.updatedAt = toISOString(now)]
            IN  /\ data' = d
                /\ file' = Save(d, written)
                /\ encLog' = LiveLog(encLog \cup
                                  {[ct |-> secret.value, plain |-> secretData.value,
                                    key |-> encryptionKey]}, d, Save(d, written))
                /\ result' = IF written
                             THEN [Outcome("addSecret", "ok") EXCEPT
                                      !.input = secretData,
                                      !.id = secret.id,
                                      !.value = secretData.value,
                                      !.recs = << [id |-> secret.id, name |-> secret.name,
                                                   type |-> secret.type,
                                                   value |-> secretData.value,
                                                   expiresAt |-> secret.expiresAt] >>]
                             ELSE [Outcome("addSecret", ErrWrite) EXCEPT
                                      !.input = secretData]
         /\ rng' = rng + 2
         /\ UNCHANGED << encryptionKey, isUnlocked, initPass, other >>

getSecret(id) ==
    IF Locked
    THEN Throws(Outcome("getSecret", ErrLocked))
    ELSE LET index == FindIndex(data.secrets, id)
             secret == data.secrets[index]
         IN  IF index = 0
             THEN Throws([Outcome("getSecret", ErrNotFound) EXCEPT !.id = id])
             ELSE Returns([Outcome("getSecret", "ok") EXCEPT
                     !.id = id,
                     !.value = decrypt(secret.value, encryptionKey),
                     !.recs = << [secret EXCEPT
                                     !.value = decrypt(secret.value, encryptionKey)] >>])

getSecretMeta(id) ==
    IF Locked
    THEN Throws(Outcome("getSecretMeta", ErrLocked))
    ELSE LET index == FindIndex(data.secrets, id)
         IN  IF index = 0
             THEN Throws([Outcome("getSecretMeta", ErrNotFound) EXCEPT !.id = id])
             ELSE Returns([Outcome("getSecretMeta", "ok") EXCEPT
                     !.id = id,
                     !.recs = << Meta(data.secrets[index]) >>])

\* seeded fault: listSecrets without the call of _ensureUnlocked
listSecrets_Ungated ==
    Returns([Outcome("listSecrets", "ok") EXCEPT
        !.recs = [i \in 1..Len(data.secrets) |-> Meta(data.secrets[i])]])

listSecrets ==
    IF Locked
    THEN Throws(Outcome("listSecrets", ErrLocked))
    ELSE Returns([Outcome("listSecrets", "ok") EXCEPT
            !.recs = [i \in 1..Len(data.secrets) |-> Meta(data.secrets[i])]])

\* if (updates.f), for a string f: present and not ''
Given(updates, f) == f \in DOMAIN updates /\ updates[f] # Null

\* if (updates.f !== undefined), and if (updates.f) for an array or an object f
Present(updates, f) == f \in DOMAIN updates

\* { ...a, ...b }
Spread(a, b) == b @@ a

\* seeded fault: updateSecret hashes the value whether or not it is given
Updated_AlwaysHash(secret, updates, key, r, t) ==
    [secret EXCEPT !.valueHash = hash(OrDefault(updates, "value", Null)),
                   !.updatedAt = toISOString(t)]

\* the record after the assignments of updateSecret: r is the draw of the
\* encryption, t the instant stamped
Updated(secret, updates, key, r, t) ==
    LET s1 == IF Given(updates, "name")
              THEN [secret EXCEPT !.name = updates.name] ELSE secret
        s2 == IF Given(updates, "type")
              THEN [s1 EXCEPT !.type = updates.type] ELSE s1
        s3 == IF Given(updates, "value")
              THEN [s2 EXCEPT !.value = encrypt(updates.value, key, r),
                              !.valueHash = hash(updates.value)]
              ELSE s2
        s4 == IF Present(updates, "expiresAt")
              THEN [s3 EXCEPT !.expiresAt = updates.expiresAt] ELSE s3
        s5 == IF Present(updates, "metadata")
              THEN [s4 EXCEPT !.metadata = Spread(@, updates.metadata)] ELSE s4
        s6 == IF Present(updates, "tags")
              THEN [s5 EXCEPT !.tags = updates.tags] ELSE s5
        s7 == IF Present(updates, "notes")
              THEN [s6 EXCEPT !.notes = updates.notes] ELSE s6
    IN  [s7 EXCEPT !.updatedAt = toISOString(t)]

updateSecret(id, updates, written) ==
    IF Locked
    THEN Throws(Outcome("updateSecret", ErrLocked))
    ELSE LET index == FindIndex(data.secrets, id)
             secret == Updated(data.secrets[index], updates, encryptionKey, rng + 1, now)
             d == [data EXCEPT !.secrets[index] = secret,
                               !.metadata.updatedAt = toISOString(now)]
         IN  IF index = 0
             THEN Throws([Outcome("updateSecret", ErrNotFound) EXCEPT !.id = id])
             ELSE /\ ClockRead
                  /\ data' = d
                  /\ file' = Save(d, written)
                  /\ rng' = IF Given(updates, "value") THEN rng + 1 ELSE rng
                  /\ encLog' = LiveLog(IF Given(updates, "value")
                                       THEN encLog \cup
                                            {[ct |-> secret.value, plain |-> updates.value,
                                              key |-> encryptionKey]}
                                       ELSE encLog, d, Save(d, written))
                  /\ result' = [Outcome("updateSecret", SaveStatus(written)) EXCEPT
                                   !.id = id, !.input = updates]
                  /\ UNCHANGED << encryptionKey, isUnlocked, initPass, other >>

deleteSecret(id, written) ==
    IF Locked
    THEN Throws(Outcome("deleteSecret", ErrLocked))
    ELSE LET index == FindIndex(data.secrets, id)
             d == [data EXCEPT !.secrets = Splice(@, index),
                               !.metadata.updatedAt = toISOString(now)]
         IN  IF index = 0
             THEN Throws([Outcome("deleteSecret", ErrNotFound) EXCEPT !.id = id])
             ELSE /\ ClockRead
                  /\ data' = d
                  /\ file' = Save(d, written)
                  /\ result' = [Outcome("deleteSecret", SaveStatus(written)) EXCEPT !.id = id]
                  /\ encLog' = LiveLog(encLog, d, Save(d, written))
                  /\ UNCHANGED << encryptionKey, isUnlocked, rng, initPass, other >>

\* String.prototype.toLowerCase (ASCII letters) and String.prototype.includes
toLowerCase(text) ==
    [i \in 1..Len(text) |->
        IF text[i] >= 65 /\ text[i] <= 90 THEN text[i] + 32 ELSE text[i]]

includes(text, q) ==
    \E i \in 0..(Len(text) - Len(q)) : SubSeq(text, i + 1, i + Len(q)) = q

\* Array.prototype.map(secret => meta), on the records filter() kept
MapMeta(kept) == [i \in 1..Len(kept) |-> Meta(kept[i])]

searchSecrets(query) ==
    IF Locked
    THEN Throws(Outcome("searchSecrets", ErrLocked))
    ELSE LET q == toLowerCase(query)
             Match(secret) ==
                 \/ includes(toLowerCase(secret.name), q)
                 \/ includes(toLowerCase(secret.type), q)
                 \/ \E t \in 1..Len(secret.tags) :
                        includes(toLowerCase(secret.tags[t]), q)
         IN  Returns([Outcome("searchSecrets", "ok") EXCEPT
                 !.input = [query |-> query],
                 !.recs = MapMeta(SelectSeq(data.secrets, Match))])

getSecretsByType(type) ==
    IF Locked
    THEN Throws(Outcome("getSecretsByType", ErrLocked))
    ELSE LET Match(secret) == secret.type = type
         IN  Returns([Outcome("getSecretsByType", "ok") EXCEPT
                 !.input = [type |-> type],
                 !.recs = MapMeta(SelectSeq(data.secrets, Match))])

\* seeded fault: a record is expired only after the instant of expiresAt
getExpiredSecrets_Strict ==
    IF Locked
    THEN Throws(Outcome("getExpiredSecrets", ErrLocked))
    ELSE LET Expired(secret) ==
                 /\ secret.expiresAt # Null
                 /\ DateParse(secret.expiresAt) # NaN
                 /\ DateParse(secret.expiresAt) < now
         IN  Returns([Outcome("getExpiredSecrets", "ok") EXCEPT
                 !.input = [now |-> now],
                 !.recs = MapMeta(SelectSeq(data.secrets, Expired))])

\* const now = new Date() is the instant of the call; it is kept in the outcome
getExpiredSecrets ==
    IF Locked
    THEN Throws(Outcome("getExpiredSecrets", ErrLocked))
    ELSE LET Expired(secret) ==
                 /\ secret.expiresAt # Null
                 /\ DateParse(secret.expiresAt) # NaN
                 /\ DateParse(secret.expiresAt) <= now
         IN  Returns([Outcome("getExpiredSecrets", "ok") EXCEPT
                 !.input = [now |-> now],
                 !.recs = MapMeta(SelectSeq(data.secrets, Expired))])

exportVault ==
    IF Locked
    THEN Throws(Outcome("exportVault", ErrLocked))
    ELSE Returns([Outcome("exportVault", "ok") EXCEPT !.text = << JsonStringify(data) >>])

importVault(blob, written) ==
    IF Locked
    THEN Throws(Outcome("importVault", ErrLocked))
    ELSE LET imported == JsonParse(blob)
         IN  /\ data' = imported
             /\ file' = Save(imported, written)
             /\ result' = [Outcome("importVault", SaveStatus(written)) EXCEPT
                              !.input = [data |-> blob]]
             /\ encLog' = LiveLog(encLog, imported, Save(imported, written))
             /\ UNCHANGED << encryptionKey, isUnlocked, now, rng, initPass, other >>

(***************************************************************************)
(* The arguments the caller passes.                                        *)
(***************************************************************************)
Passphrases == { Str_pw1, Str_pw2 }

\* the passphrase the caller creates vaults with
InitPassphrases == { Str_pw1 }

AddInputs ==
    { [name |-> Str_db, value |-> Str_s \o Str_eacute, type |-> Str_password],
      [name |-> Str_old, value |-> Null, expiresAt |-> toISOString(0),
       tags |-> << Str_DB >>, metadata |-> [env |-> Str_prod], type |-> Null] }

UpdateInputs ==
    { [value |-> Str_n],
      [value |-> Null],
      [name |-> Null, type |-> Str_token, notes |-> Str_n,
       tags |-> << Str_me >>, metadata |-> [owner |-> Str_me], expiresAt |-> Null] }

\* the ids of the records held, and one that no record has
IdArgs == { data.secrets[i].id : i \in 1..Len(data.secrets) } \cup { Str_none }

Queries == { Str_DB }

Types == { Str_generic }

\* a vault document exported from another vault: another salt, no record
ForeignVault ==
    [version  |-> 2,
     secrets  |-> <<>>,
     metadata |-> [createdAt |-> toISOString(0), updatedAt |-> toISOString(0),
                   salt |-> ToHex(RandomBytes(16, 200))]]

\* what the caller imports: the export of the vault held, or the foreign one
Blobs == { JsonStringify(data), JsonStringify(ForeignVault) }

\* the calls of one engine object after another, the writes of save() as
\* given: Writes = {TRUE} is a disk that takes every write
Calls(Writes) ==
    \/ Construct
    \/ \E p \in InitPassphrases, w \in Writes : init(p, w)
    \/ \E p \in Passphrases : unlock(p)
    \/ lock
    \/ \E sd \in AddInputs, w \in Writes : addSecret(sd, w)
    \/ \E id \in IdArgs : getSecret(id)
    \/ \E id \in IdArgs : getSecretMeta(id)
    \/ listSecrets
    \/ \E id \in IdArgs, u \in UpdateInputs, w \in Writes : updateSecret(id, u, w)
    \/ \E id \in IdArgs, w \in Writes : deleteSecret(id, w)
    \/ \E q \in Queries : searchSecrets(q)
    \/ \E t \in Types : getSecretsByType(t)
    \/ getExpiredSecrets
    \/ exportVault
    \/ \E b \in Blobs, w \in Writes : importVault(b, w)

Next == Calls({TRUE})

Spec == Init /\ [][Next]_vars

\* the same calls on a disk whose writes may fail
NextIO == Calls(BOOLEAN)

SpecIO == Init /\ [][NextIO]_vars

\* a vault document put together by hand: two records under one id
Str_dup == <<100, 117, 112>>                                \* "dup"

TwinRecord(name, r) ==
    [id        |-> Str_dup,
     name      |-> name,
     type      |-> Str_generic,
     value     |-> ToBase64(RandomBytes(ivLength + 1, r)),
     valueHash |-> hash(Str_n),
     createdAt |-> toISOString(0),
     updatedAt |-> toISOString(0),
     expiresAt |-> Null,
     metadata  |-> EmptyObject,
     tags      |-> <<>>,
     notes     |-> Null]

TwinVault ==
    [version  |-> 1,
     secrets  |-> << TwinRecord(Str_db, 201), TwinRecord(Str_old, 202) >>,
     metadata |-> [createdAt |-> toISOString(0), updatedAt |-> toISOString(0),
                   salt |-> ToHex(RandomBytes(16, 200))]]

\* the same calls, and the import of a document the engine did not write
NextImport ==
    \/ Next
    \/ importVault(JsonStringify(TwinVault), TRUE)

SpecImport == Init /\ [][NextImport]_vars

\* time passes between two calls
Tick ==
    /\ now < MaxNow
    /\ now' = now + 1
    /\ UNCHANGED << data, encryptionKey, isUnlocked, file, rng, encLog, initPass, other, result >>

\* a secret that expires at the last instant of the clock
FutureInputs ==
    { [name |-> Str_token, value |-> Str_n, expiresAt |-> toISOString(MaxNow)] }

\* the same calls with time passing between them
NextClock ==
    \/ Next
    \/ Tick
    \/ \E sd \in FutureInputs : addSecret(sd, TRUE)

SpecClock == Init /\ [][NextClock]_vars

\* the caller turns to the other engine object: a second session, in another
\* process, on the same backing file
Switch ==
    /\ data' = other.data
    /\ encryptionKey' = other.encryptionKey
    /\ isUnlocked' = other.isUnlocked
    /\ result' = other.result
    /\ other' = [data |-> data, encryptionKey |-> encryptionKey,
                 isUnlocked |-> isUnlocked, result |-> result]
    /\ UNCHANGED << file, now, rng, encLog, initPass >>

\* what the two sessions add
TwoInputs == { [name |-> Str_db, value |-> Str_s, type |-> Str_password] }

\* the calls of two sessions interleaved: each opens the vault and writes to it
NextTwo ==
    \/ Switch
    \/ \E p \in InitPassphrases : init(p, TRUE)
    \/ \E p \in InitPassphrases : unlock(p)
    \/ \E sd \in TwoInputs : addSecret(sd, TRUE)
    \/ \E id \in IdArgs : deleteSecret(id, TRUE)
    \/ listSecrets

SpecTwo == Init /\ [][NextTwo]_vars

(***************************************************************************)
(* The command line.  Every invocation is a process of its own: the module *)
(* constructs its SecretsVault when it is loaded, the process runs the one *)
(* command it was given and exits.  `other' keeps what the process before  *)
(* ended with; nothing of it but the file reaches the next process.        *)
(***************************************************************************)
ErrExists == "Vault already exists. Use \"secrets unlock\" first."

\* node loads the module: const vault = new SecretsVault()
ProcessStart ==
    /\ result.op # "constructor"
    /\ other' = [data |-> data, encryptionKey |-> encryptionKey,
                 isUnlocked |-> isUnlocked, result |-> result]
    /\ data' = EmptyVault
    /\ encryptionKey' = Null
    /\ isUnlocked' = FALSE
    /\ result' = Outcome("constructor", "ok")
    /\ UNCHANGED << file, now, rng, encLog, initPass >>

\* the process has run no command yet
Started == result.op = "constructor"

\* the records of the vault in the file
FileSecrets == JsonParse(file[1]).secrets

\* vault.exists()
exists == file # <<>>

\* vault.isVaultUnlocked()
isVaultUnlocked == isUnlocked

\* secrets init, the passphrase typed twice alike
cli_init(passphrase) ==
    /\ Started
    /\ IF exists
       THEN Throws(Outcome("init", ErrExists))
       ELSE init(passphrase, TRUE)

\* secrets unlock
cli_unlock(passphrase) ==
    /\ Started
    /\ IF ~exists
       THEN Throws(Outcome("unlock", ErrNoVault))
       ELSE unlock(passphrase)

\* secrets lock
cli_lock ==
    /\ Started
    /\ lock

\* secrets add -n <name> -v <value> -t <type>
cli_add(options) ==
    /\ Started
    /\ IF ~isVaultUnlocked
       THEN Throws(Outcome("addSecret", ErrLocked))
       ELSE addSecret([name |-> options.name, value |-> options.value,
                       type |-> options.type, expiresAt |-> Null,
                       notes |-> Null, tags |-> <<>>], TRUE)

\* secrets get <id>
cli_get(id) ==
    /\ Started
    /\ IF ~isVaultUnlocked
       THEN Throws(Outcome("getSecret", ErrLocked))
       ELSE getSecret(id)

\* secrets list
cli_list ==
    /\ Started
    /\ IF ~isVaultUnlocked
       THEN Throws(Outcome("listSecrets", ErrLocked))
       ELSE listSecrets

\* secrets search <query>
cli_search(query) ==
    /\ Started
    /\ IF ~isVaultUnlocked
       THEN Throws(Outcome("searchSecrets", ErrLocked))
       ELSE searchSecrets(query)

\* secrets update <id> -v <value>
cli_update(id, options) ==
    /\ Started
    /\ IF ~isVaultUnlocked
       THEN Throws(Outcome("updateSecret", ErrLocked))
       ELSE updateSecret(id, [value |-> options.value], TRUE)

\* secrets delete <id> --force
cli_delete(id) ==
    /\ Started
    /\ IF ~isVaultUnlocked
       THEN Throws(Outcome("deleteSecret", ErrLocked))
       ELSE deleteSecret(id, TRUE)

\* secrets expired
cli_expired ==
    /\ Started
    /\ IF ~isVaultUnlocked
       THEN Throws(Outcome("getExpiredSecrets", ErrLocked))
       ELSE getExpiredSecrets

\* the ids typed on the command line: those of the records in the file, and
\* one that no record has
CliIds == (IF exists THEN { FileSecrets[i].id : i \in 1..Len(FileSecrets) } ELSE {})
              \cup { Str_none }

CliUpdates == { [value |-> Str_n] }

NextCli ==
    \/ ProcessStart
    \/ \E p \in InitPassphrases : cli_init(p)
    \/ \E p \in Passphrases : cli_unlock(p)
    \/ cli_lock
    \/ \E o \in TwoInputs : cli_add(o)
    \/ \E id \in CliIds : cli_get(id)
    \/ cli_list
    \/ \E q \in Queries : cli_search(q)
    \/ \E id \in CliIds, o \in CliUpdates : cli_update(id, o)
    \/ \E id \in CliIds : cli_delete(id)
    \/ cli_expired

SpecCli == Init /\ [][NextCli]_vars

(***************************************************************************)
(* The other failures of the file system: a directory that cannot be made, *)
(* a vault file that cannot be read or does not parse.                     *)
(***************************************************************************)
ErrMkdir == "EACCES: permission denied, mkdir"
ErrRead  == "EACCES: permission denied, open"
ErrParse == "Unexpected end of JSON input"

LoadErrors == { ErrRead, ErrParse }

\* init() where the directory of the vault is missing and fs.mkdirSync
\* throws: nothing has been assigned yet
init_mkdirFails(passphrase) ==
    /\ file = <<>>
    /\ Throws([Outcome("init", ErrMkdir) EXCEPT !.pass = passphrase])

\* unlock() where the file is there and load() throws, in fs.readFileSync or
\* in JSON.parse: this.data, the key and the flag are as they were
unlock_loadFails(passphrase, error) ==
    /\ file # <<>>
    /\ Throws([Outcome("unlock", error) EXCEPT !.pass = passphrase])

NextFail ==
    \/ NextIO
    \/ \E p \in InitPassphrases : init_mkdirFails(p)
    \/ \E p \in Passphrases, e \in LoadErrors : unlock_loadFails(p, e)

SpecFail == Init /\ [][NextFail]_vars

(***************************************************************************)
(* Properties.  A step is a call of the engine: result' names the call and *)
(* its outcome, the unprimed variables are the state the call found.       *)
(***************************************************************************)
DataOps ==
    { "addSecret", "getSecret", "getSecretMeta", "listSecrets", "updateSecret",
      "deleteSecret", "searchSecrets", "getSecretsByType", "getExpiredSecrets",
      "exportVault", "importVault" }

\* C1 (lifecycle gating): a data operation called while the session is not
\* unlocked throws the 'vault locked' error, and the in-memory vault, the held
\* key and the backing file are as before the call.
C1_LifecycleGating ==
    [][ (~isUnlocked /\ result'.op \in DataOps)
            => /\ result'.status = ErrLocked
               /\ data' = data
               /\ encryptionKey' = encryptionKey
               /\ isUnlocked' = isUnlocked
               /\ file' = file ]_vars

\* a data operation was rejected after lock(), with records in memory and on disk
C1_Witness ==
    /\ result.op = "getSecret"
    /\ result.status = ErrLocked
    /\ ~isUnlocked
    /\ Len(data.secrets) > 0
    /\ file # <<>>

\* the record getSecret(id) addresses: the first one with that id
Holds(secrets, id) == \E i \in 1..Len(secrets) : secrets[i].id = id
RecordOf(secrets, id) == secrets[FindIndex(secrets, id)]

\* the history of the ciphertext of a record: its plaintext and key
LogOf(secret) == { e \in encLog : e.ct = secret.value }

\* C2 as claimed (lock/unlock round trip): after unlock(p), p the passphrase
\* of init, getSecret(id) of every record returns the plaintext most recently
\* stored for it, whatever calls came before.
C2_Original ==
    [][ (/\ result.op = "unlock" /\ result.status = "ok"
         /\ result.pass = initPass
         /\ result'.op = "getSecret"
         /\ Holds(data.secrets, result'.id))
            => /\ result'.status = "ok"
               /\ \A e \in LogOf(RecordOf(data.secrets, result'.id)) :
                      result'.value = e.plain ]_vars

\* C2 as amended: after unlock(p), getSecret(id) of every record succeeds and
\* returns the stored ciphertext decrypted under the key derived from p and the
\* salt loaded from the file; that is the plaintext most recently stored for
\* the records whose value was encrypted under this key.
C2_LockUnlockRoundTrip ==
    [][ (/\ result.op = "unlock" /\ result.status = "ok"
         /\ result.pass = initPass
         /\ result'.op = "getSecret"
         /\ Holds(data.secrets, result'.id))
            => /\ result'.status = "ok"
               /\ result'.value = decrypt(RecordOf(data.secrets, result'.id).value,
                                          deriveKey(result.pass, data.metadata.salt, 0).key)
               /\ \A e \in LogOf(RecordOf(data.secrets, result'.id)) :
                      e.key = deriveKey(result.pass, data.metadata.salt, 0).key
                          => result'.value = e.plain ]_vars

\* unlock(p) has re-derived the key under which a record with a non-empty
\* value was encrypted
C2_Witness ==
    /\ result.op = "unlock" /\ result.status = "ok"
    /\ result.pass = initPass
    /\ \E i \in 1..Len(data.secrets) : \E e \in LogOf(data.secrets[i]) :
          /\ e.key = encryptionKey
          /\ e.plain # Null
          /\ decrypt(data.secrets[i].value, encryptionKey) = e.plain

\* C3 (add/get round trip): addSecret returns the caller's value and the id of
\* the record it appended, which getSecret addresses; getSecret of a record
\* whose value was encrypted under the key held returns the value encrypted.
C3_AddGetRoundTrip ==
    [][ /\ (result'.op = "addSecret" /\ result'.status = "ok")
            => /\ result'.value = result'.input.value
               /\ Len(data'.secrets) = Len(data.secrets) + 1
               /\ result'.id = data'.secrets[Len(data'.secrets)].id
               /\ result'.id # Null
               /\ FindIndex(data'.secrets, result'.id) = Len(data'.secrets)
               /\ decrypt(data'.secrets[Len(data'.secrets)].value, encryptionKey')
                      = result'.input.value
        /\ (/\ result'.op = "getSecret" /\ isUnlocked
            /\ Holds(data.secrets, result'.id))
            => /\ result'.status = "ok"
               /\ \A e \in LogOf(RecordOf(data.secrets, result'.id)) :
                      e.key = encryptionKey => result'.value = e.plain ]_vars

\* getSecret returned the non-empty value of a record in the session that added it
C3_Witness ==
    /\ result.op = "getSecret" /\ result.status = "ok"
    /\ result.value = Str_s \o Str_eacute
    /\ \E e \in LogOf(RecordOf(data.secrets, result.id)) :
          e.key = encryptionKey /\ e.plain = result.value

\* the record updateSecret(id, ...) addresses, before and after the call
Before == RecordOf(data.secrets, result'.id)
After == data'.secrets[FindIndex(data.secrets, result'.id)]

UpdateDone == result'.op = "updateSecret" /\ result'.status = "ok"

\* an updateSecret that reached its assignments, whether or not save() threw
UpdateRan == result'.op = "updateSecret" /\ result'.status \in { "ok", ErrWrite }

\* C4 as claimed (value update): whenever updates has the field value = v, the
\* record is re-encrypted, its valueHash is hash(v), and getSecret returns v.
C4_Original ==
    [][ (UpdateDone /\ "value" \in DOMAIN result'.input)
            => /\ After.valueHash = hash(result'.input.value)
               /\ After.value # Before.value
               /\ decrypt(After.value, encryptionKey') = result'.input.value ]_vars

MetaOps ==
    { "getSecretMeta", "listSecrets", "searchSecrets", "getSecretsByType",
      "getExpiredSecrets" }

HasValue(recs) == \E i \in 1..Len(recs) : "value" \in DOMAIN recs[i]

\* C6 (metadata-only views): the records getSecretMeta, listSecrets,
\* searchSecrets, getSecretsByType and getExpiredSecrets return have no value
\* field, and a call that returns a value is an addSecret or a getSecret.
C6_MetadataOnlyViews ==
    /\ result.op \in MetaOps => ~HasValue(result.recs)
    /\ (HasValue(result.recs) \/ result.value # Null)
            => result.op \in { "addSecret", "getSecret" }

\* searchSecrets returned the record of a secret that has a value
C6_Witness ==
    /\ result.op = "searchSecrets" /\ result.status = "ok"
    /\ Len(result.recs) > 0
    /\ \A i \in 1..Len(result.recs) :
          /\ Holds(data.secrets, result.recs[i].id)
          /\ RecordOf(data.secrets, result.recs[i].id).value # Null

IdOps == { "getSecret", "getSecretMeta", "updateSecret", "deleteSecret" }

\* C7 (not found): getSecret, getSecretMeta, updateSecret and deleteSecret
\* called in an unlocked session with an id that no record has throw 'not
\* found', and the in-memory vault and the backing file are as before.
C7_NotFound ==
    [][ (/\ isUnlocked /\ result'.op \in IdOps
         /\ \A i \in 1..Len(data.secrets) : data.secrets[i].id # result'.id)
            => /\ result'.status = ErrNotFound
               /\ data' = data
               /\ file' = file ]_vars

\* deleteSecret of an unknown id was refused by a vault that holds a record
C7_Witness ==
    /\ result.op = "deleteSecret" /\ result.status = ErrNotFound
    /\ result.id = Str_none
    /\ isUnlocked /\ Len(data.secrets) > 0

\* C8 (lock): lock() can be called in every state and succeeds; after it no key
\* is held and isUnlocked is false, the records in memory and the file are as
\* before; the session becomes unlocked again only by an unlock or init that
\* succeeds, and until then every data operation is rejected.
C8_Lock ==
    [][ /\ ENABLED lock
        /\ result'.op = "lock"
              => /\ result'.status = "ok"
                 /\ encryptionKey' = Null /\ ~isUnlocked'
                 /\ data' = data /\ file' = file
        /\ (~isUnlocked /\ isUnlocked')
              => result'.op \in { "init", "unlock" } /\ result'.status = "ok"
        /\ (~isUnlocked /\ result'.op \in DataOps)
              => result'.status = ErrLocked /\ ~isUnlocked' ]_vars

\* lock() was called in a session that held records and a file
C8_Witness ==
    /\ result.op = "lock" /\ result.status = "ok"
    /\ encryptionKey = Null /\ ~isUnlocked
    /\ Len(data.secrets) > 0 /\ file # <<>>

\* C9 as claimed (unlock without a file): unlock(passphrase) when no backing
\* file exists throws 'vault does not exist', the session is not unlocked and
\* holds no key after it, and there is still no file.
C9_Original ==
    [][ (result'.op = "unlock" /\ file = <<>>)
            => /\ result'.status = ErrNoVault
               /\ ~isUnlocked'
               /\ encryptionKey' = Null
               /\ file' = <<>> ]_vars

\* the key the passphrase p and the salt of the vault held give
KeyOf(p) == deriveKey(p, data.metadata.salt, 0).key

\* a getSecret step right after unlock(q), q not the passphrase of init, on a
\* record stored under the passphrase of init
WrongKeyRead(e) ==
    /\ result.op = "unlock" /\ result.status = "ok"
    /\ result.pass # initPass
    /\ result'.op = "getSecret"
    /\ Holds(data.secrets, result'.id)
    /\ e \in LogOf(RecordOf(data.secrets, result'.id))
    /\ e.key = KeyOf(initPass)

\* unlock(q) on a file that holds a vault succeeds for every q
UnlockUnverified ==
    (result'.op = "unlock" /\ file # <<>>)
        => /\ result'.status = "ok"
           /\ isUnlocked'
           /\ encryptionKey' = deriveKey(result'.pass, data'.metadata.salt, 0).key

\* C10 as claimed (passphrase not verified): unlock(q) succeeds for every q
\* when a file exists, and getSecret of a secret stored under the original
\* passphrase then returns without error a value that is not the plaintext.
C10_Original ==
    [][ /\ UnlockUnverified
        /\ \A e \in encLog :
              WrongKeyRead(e)
                  => result'.status = "ok" /\ result'.value # e.plain ]_vars

\* C10 as amended: unlock(q) succeeds for every q when the file holds a vault;
\* getSecret then returns without error the ciphertext decrypted under the key
\* derived from q, which is the plaintext when the plaintext is the empty
\* string and differs from it for the non-empty plaintexts.
C10_PassphraseNotVerified ==
    [][ /\ UnlockUnverified
        /\ \A e \in encLog :
              WrongKeyRead(e)
                  => /\ result'.status = "ok"
                     /\ result'.value =
                            decrypt(RecordOf(data.secrets, result'.id).value,
                                    KeyOf(result.pass))
                     /\ (result'.value = e.plain) <=> (e.plain = Null) ]_vars

\* getSecret returned something else than the non-empty plaintext of a record
\* stored under the passphrase of init, in a session unlocked with another
C10_Witness ==
    /\ result.op = "getSecret" /\ result.status = "ok"
    /\ initPass # Null
    /\ encryptionKey # Null /\ encryptionKey # KeyOf(initPass)
    /\ \E e \in LogOf(RecordOf(data.secrets, result.id)) :
          /\ e.key = KeyOf(initPass)
          /\ e.plain # Null
          /\ result.value # e.plain

\* a vault document holds a secret encrypted under a key derived from its salt
UnderSalt(d) ==
    /\ d.metadata.salt # Null
    /\ \E i \in 1..Len(d.secrets) : \E e \in LogOf(d.secrets[i]), p \in Passphrases :
          e.key = deriveKey(p, d.metadata.salt, 0).key

\* the vault document in the backing file
FileVault == JsonParse(file[1])

\* C11 as claimed (salt stability): no call of init, unlock, lock, addSecret,
\* updateSecret, deleteSecret or importVault changes metadata.salt of the
\* in-memory vault, or of the backing file, while that vault holds a secret
\* encrypted under a key derived from the salt.
C11_Original ==
    [][ result'.op # "constructor"
            => /\ UnderSalt(data)
                    => data'.metadata.salt = data.metadata.salt
               /\ (file # <<>> /\ UnderSalt(FileVault))
                    => JsonParse(file'[1]).metadata.salt = FileVault.metadata.salt ]_vars

\* C12 as claimed (unique ids): in every reachable state no two records of
\* the in-memory vault have the same id.
C12_Original ==
    \A i, j \in 1..Len(data.secrets) :
        i # j => data.secrets[i].id # data.secrets[j].id

MutOps == { "init", "addSecret", "updateSecret", "deleteSecret", "importVault" }

\* C13 (persist before return): when init, addSecret, updateSecret,
\* deleteSecret or importVault returns, the file holds the serialisation of the
\* in-memory vault; no other call and no failed call changes the file; and an
\* unlock that succeeds loads the vault the file holds.
C13_PersistBeforeReturn ==
    [][ /\ (result'.op \in MutOps /\ result'.status = "ok")
              => file' = << JsonStringify(data') >>
        /\ (result'.op \notin MutOps \/ result'.status # "ok")
              => file' = file
        /\ (result'.op = "unlock" /\ result'.status = "ok")
              => data' = JsonParse(file[1]) ]_vars

\* unlock has loaded a vault with a record that an earlier call saved
C13_Witness ==
    /\ result.op = "unlock" /\ result.status = "ok"
    /\ Len(data.secrets) > 0
    /\ file = << JsonStringify(data) >>
    /\ encLog # {}

\* new Date(secret.expiresAt) <= at, for an expiresAt that is set
Due(secret, at) ==
    /\ secret.expiresAt # Null
    /\ DateParse(secret.expiresAt) # NaN
    /\ DateParse(secret.expiresAt) <= at

\* C14 (expiry): getExpiredSecrets returns the records whose expiresAt is set
\* and is not after the instant of the call, and no other: a record without
\* expiresAt is never returned, and a record whose expiresAt was in the future
\* is returned by the calls made once the clock has reached it.
C14_Expiry ==
    (result.op = "getExpiredSecrets" /\ result.status = "ok")
        => /\ \A i \in 1..Len(data.secrets) :
                  (\E j \in 1..Len(result.recs) : result.recs[j] = Meta(data.secrets[i]))
                      <=> Due(data.secrets[i], result.input.now)
           /\ \A j \in 1..Len(result.recs) :
                  \E i \in 1..Len(data.secrets) : result.recs[j] = Meta(data.secrets[i])

\* getExpiredSecrets returned a record whose expiresAt was still in the future
\* at the last write of the vault: time alone has passed since
C14_Witness ==
    /\ result.op = "getExpiredSecrets" /\ result.status = "ok"
    /\ DateParse(data.metadata.updatedAt) + 1 < result.input.now
    /\ \E j \in 1..Len(result.recs) :
          /\ DateParse(data.metadata.updatedAt) < DateParse(result.recs[j].expiresAt)
          /\ DateParse(result.recs[j].expiresAt) <= result.input.now

\* C15 as claimed (updatedAt): every init, addSecret, updateSecret,
\* deleteSecret and importVault that succeeds sets metadata.updatedAt of the
\* vault to the instant of the call, and updateSecret sets updatedAt of the
\* record it addresses to that instant too.
C15_Original ==
    [][ (result'.op \in MutOps /\ result'.status = "ok")
            => /\ data'.metadata.updatedAt = toISOString(now)
               /\ result'.op = "updateSecret"
                    => After.updatedAt = toISOString(now) ]_vars

\* { ...old, ...supplied }: the supplied keys win, the other old keys are kept
Merged(old, supplied) ==
    [k \in DOMAIN old \cup DOMAIN supplied |->
        IF k \in DOMAIN supplied THEN supplied[k] ELSE old[k]]

\* C16 as claimed (field-wise update): an updateSecret that succeeds gives
\* name, type, notes and expiresAt the supplied value whatever it is, replaces
\* tags by the supplied sequence, merges the supplied metadata into the old,
\* and leaves every field that updates does not have as it was.
C16_Original ==
    [][ UpdateDone
            => LET u == result'.input
               IN  /\ \A f \in { "name", "type", "notes", "expiresAt", "tags" } :
                          f \in DOMAIN u => After[f] = u[f]
                   /\ "metadata" \in DOMAIN u
                          => After.metadata = Merged(Before.metadata, u.metadata)
                   /\ \A f \in { "name", "type", "notes", "expiresAt", "tags", "metadata" } :
                          f \notin DOMAIN u => After[f] = Before[f] ]_vars

\* the ids of the records of a vault document
Ids(d) == { d.secrets[i].id : i \in 1..Len(d.secrets) }

\* C17 (last write wins): with two sessions on one file, a mutating call that
\* succeeds overwrites the file with the vault of the session that made it,
\* whatever the other session has written; a record the other session added
\* and the writer does not hold is then gone from the file, and no call of
\* either session fails for it.
C17_LastWriteWins ==
    [][ (other' = other /\ result'.op \in MutOps /\ result'.status = "ok")
            => /\ file' = << JsonStringify(data') >>
               /\ Ids(JsonParse(file'[1])) = Ids(data') ]_vars

\* both sessions are unlocked and the last call of each was an addSecret that
\* succeeded; the file holds the record of the one and not that of the other
C17_Witness ==
    /\ isUnlocked /\ other.isUnlocked
    /\ result.op = "addSecret" /\ result.status = "ok"
    /\ other.result.op = "addSecret" /\ other.result.status = "ok"
    /\ result.id \in Ids(FileVault)
    /\ other.result.id \in Ids(other.data)
    /\ other.result.id \notin Ids(FileVault)

\* the commands that work on the records of the vault
CliDataOps ==
    {"addSecret", "getSecret", "listSecrets", "searchSecrets", "updateSecret",
     "deleteSecret", "getExpiredSecrets"}

\* C18 (README workflow), as stated: when the invocation before was a
\* `secrets unlock` that succeeded, the command of the next invocation (add,
\* get, list, search, update, delete, expired) finds the vault unlocked: it
\* is not refused as locked.
C18_Original ==
    [][ (/\ Started
         /\ other.result.op = "unlock" /\ other.result.status = "ok"
         /\ result'.op \in CliDataOps)
            => result'.status # ErrLocked ]_vars

\* C19 (import/export), as stated: an importVault that succeeds in an unlocked
\* session leaves the vault in memory and the file equal to the parsed blob,
\* whatever its version and fields, and the session unlocked under the key
\* it held; when the blob is what exportVault returns, the vault in memory
\* and the file are exactly as they were.
C19_Original ==
    [][ (isUnlocked /\ result'.op = "importVault" /\ result'.status = "ok")
            => LET blob == result'.input.data
               IN  /\ data' = JsonParse(blob)
                   /\ file' = << JsonStringify(JsonParse(blob)) >>
                   /\ isUnlocked' /\ encryptionKey' = encryptionKey
                   /\ blob = JsonStringify(data) => (data' = data /\ file' = file) ]_vars

\* C20 (ordered collection): an addSecret that succeeds leaves the records as
\* they were with the new one appended; a deleteSecret that succeeds removes
\* one record that has the id given, and every other record keeps its fields
\* and its place relative to the others; listSecrets returns one entry per
\* record held, in the order held, which is the order of their creation.
C20_Ordered ==
    [][ LET old == data.secrets
            new == data'.secrets
        IN  /\ (result'.op = "addSecret" /\ result'.status = "ok")
                  => /\ Len(new) = Len(old) + 1
                     /\ SubSeq(new, 1, Len(old)) = old
                     /\ new[Len(new)].id = result'.id
            /\ (result'.op = "deleteSecret" /\ result'.status = "ok")
                  => \E k \in 1..Len(old) :
                        /\ old[k].id = result'.id
                        /\ Len(new) = Len(old) - 1
                        /\ \A i \in 1..Len(new) :
                              new[i] = IF i < k THEN old[i] ELSE old[i + 1]
            /\ (result'.op = "listSecrets" /\ result'.status = "ok")
                  => /\ new = old
                     /\ Len(result'.recs) = Len(old)
                     /\ \A i \in 1..Len(old) :
                           /\ result'.recs[i].id = old[i].id
                           /\ result'.recs[i].name = old[i].name
                           /\ result'.recs[i].createdAt = old[i].createdAt
                     /\ \A i, j \in 1..Len(old) :
                           i < j => DateParse(result'.recs[i].createdAt)
                                       <= DateParse(result'.recs[j].createdAt) ]_vars

\* a deleteSecret has removed the first of three records: the two behind it
\* are held, the one added last still last
C20_Witness ==
    /\ result.op = "deleteSecret" /\ result.status = "ok"
    /\ Len(data.secrets) = 2
    /\ data.secrets[1].id = result.id
    /\ data.secrets[2].id # result.id
    /\ data.secrets[2].name = Str_db

\* C21 (key held only while Unlocked), as stated: in every reachable state,
\* those after a call that failed included, the engine holds a key exactly
\* when the session is unlocked.
C21_Original == (encryptionKey # Null) <=> isUnlocked

\* the mutations of an unlocked vault
RecordMutations == {"addSecret", "updateSecret", "deleteSecret", "importVault"}

\* C22 (failure atomicity), as stated: when the write of addSecret,
\* updateSecret, deleteSecret or importVault fails, the caller gets the
\* error, the file is as it was and the vault in memory is the one the call
\* found.
C22_Original ==
    [][ (result'.op \in RecordMutations /\ result'.status = ErrWrite)
            => file' = file /\ data' = data ]_vars

=============================================================================
